---------------------------- MODULE Spec2Model ----------------------------
(***************************************************************************)
(* Model of the customer-support bot: SupportBotAgent of                   *)
(* Support_Bot_Agent.py (the command-line variant, "cli") and of the       *)
(* Streamlit app (the "app" variant).  A text is a sequence of one-        *)
(* character strings, so that splitting, trimming, slicing and token       *)
(* counting are computed as Python computes them.                          *)
(***************************************************************************)
EXTENDS Integers, Sequences, FiniteSets, TLC

VARIABLES
  variant,            \* "cli" (Support_Bot_Agent.py) or "app" (Streamlit app)
  document_text,      \* self.document_text
  sections,           \* self.sections
  section_embeddings, \* self.section_embeddings
  embedder,           \* self.embedder: the vectors it has returned for the texts of this query
  pc,                 \* "new", "ready", "next_query", "classify", "adjust", "done", "error"
  error,              \* the exception that escaped, "" when none
  queries,            \* the queries run() has still to process
  qIndex,             \* number of queries run() has started
  query,              \* the query being processed
  max_iterations,     \* run()'s max_iterations
  iteration,          \* completed passes of the feedback loop for this query
  response,           \* run()'s local response
  feedback,           \* the last label get_feedback returned for this query
  outcome,            \* "NONE", "INITIAL", "ITERATING", "IMPROVED", "EXHAUSTED"
  responses,          \* app: run()'s list responses (the cli prints and keeps no list)
  feedbacks,          \* app: run()'s list feedbacks (the cli logs and keeps no list)
  call,               \* the last answer_query call of this query
  lastAdjusted,       \* what the last adjust_response call returned
  nClassify,          \* get_feedback calls for this query
  nRetrieve,          \* find_relevant_section calls for this query
  nExtract,           \* qa_model calls for this query
  selected,           \* best_idx of the last find_relevant_section call, per text of this query
  nNotHelpful         \* 'not helpful' labels get_feedback returned for this query

vars == <<variant, document_text, sections, section_embeddings, embedder,
          pc, error, queries, qIndex, query, max_iterations, iteration, response,
          feedback, outcome, responses, feedbacks, call, lastAdjusted,
          nClassify, nRetrieve, nExtract, selected, nNotHelpful>>

---------------------------------------------------------------------------
(* Bounds of the model *)

\* longest document of the segmentation specification
MaxDocLen == 5
\* most tokens of an answer the question-answering model returns
MaxAnswerTokens == 3
\* largest max_iterations passed to run()
MaxIterations == 2
\* most queries in one batch
MaxBatch == 2
\* length of the long section, above both snippet limits
LongLen == 205

---------------------------------------------------------------------------
(* Program constants *)

\* answer_query: len(context.strip()) < 10
MinContextLen == 10
\* get_feedback: len(response.split()) < 3
MinTokens == 3
\* adjust_response: context[:200]
SnippetLen == 200
\* app adjust_response: context[:120]
AppSnippetLen == 120
\* app run: for _ in range(2)
AppIterations == 2

---------------------------------------------------------------------------
(* Text literals of the source *)

\* "I don't have enough information to answer that."
NoInfoMsg ==
  <<"I"," ","d","o","n","'","t"," ","h","a","v","e"," ","e","n","o","u","g","h"," ","i","n",
    "f","o","r","m","a","t","i","o","n"," ","t","o"," ","a","n","s","w","e","r"," ","t","h",
    "a","t",".">>

\* "I encountered an error generating an answer."
QAErrorMsg ==
  <<"I"," ","e","n","c","o","u","n","t","e","r","e","d"," ","a","n"," ","e","r","r","o","r",
    " ","g","e","n","e","r","a","t","i","n","g"," ","a","n"," ","a","n","s","w","e","r",".">>

\* " Additional context: "
AdditionalContext ==
  <<" ","A","d","d","i","t","i","o","n","a","l"," ","c","o","n","t","e","x","t",":"," ">>

\* "..."
Ellipsis ==
  <<".",".",".">>

\* " Please be more specific and provide steps or examples."
FollowUpSuffix ==
  <<" ","P","l","e","a","s","e"," ","b","e"," ","m","o","r","e"," ","s","p","e","c","i","f",
    "i","c"," ","a","n","d"," ","p","r","o","v","i","d","e"," ","s","t","e","p","s"," ","o",
    "r"," ","e","x","a","m","p","l","e","s",".">>

\* app: "Sorry, I don't have enough information to answer that. Please contact
\* support@example.com." (the source's typographic apostrophe written as ')
AppNoInfoMsg ==
  <<"S","o","r","r","y",","," ","I"," ","d","o","n","'","t"," ","h","a","v","e"," ","e","n",
    "o","u","g","h"," ","i","n","f","o","r","m","a","t","i","o","n"," ","t","o"," ","a","n",
    "s","w","e","r"," ","t","h","a","t","."," ","P","l","e","a","s","e"," ","c","o","n","t",
    "a","c","t"," ","s","u","p","p","o","r","t","@","e","x","a","m","p","l","e",".","c","o",
    "m",".">>

\* app: " (More info: "
AppMoreInfo ==
  <<" ","(","M","o","r","e"," ","i","n","f","o",":"," ">>

\* app: "...)"
AppEllipsis ==
  <<".",".",".",")">>

\* app: " Please provide more details."
AppFollowUpSuffix ==
  <<" ","P","l","e","a","s","e"," ","p","r","o","v","i","d","e"," ","m","o","r","e"," ","d",
    "e","t","a","i","l","s",".">>
---------------------------------------------------------------------------
(* Python string operations *)

\* str.isspace() of one character
IsSpace(c) == c \in {" ", "\n", "\t", "\r"}

\* the first position from i on that holds a non-whitespace character
\* (Len(s) + 1 if there is none)
RECURSIVE SkipSpaces(_, _)
SkipSpaces(s, i) ==
  IF i > Len(s) THEN i ELSE IF IsSpace(s[i]) THEN SkipSpaces(s, i + 1) ELSE i

\* the first position from i on that holds a whitespace character
\* (Len(s) + 1 if there is none)
RECURSIVE SkipToken(_, _)
SkipToken(s, i) ==
  IF i > Len(s) THEN i ELSE IF IsSpace(s[i]) THEN i ELSE SkipToken(s, i + 1)

\* the last position up to i that holds a non-whitespace character (0 if none)
RECURSIVE LastNonSpace(_, _)
LastNonSpace(s, i) ==
  IF i < 1 THEN 0 ELSE IF IsSpace(s[i]) THEN LastNonSpace(s, i - 1) ELSE i

\* s.strip()
strip(s) == SubSeq(s, SkipSpaces(s, 1), LastNonSpace(s, Len(s)))

\* s[:n]
Slice(s, n) == SubSeq(s, 1, IF Len(s) < n THEN Len(s) ELSE n)

\* the first position from i on where n newlines start (0 if there is none)
NextSep(s, n, i) ==
  LET found == {j \in i..(Len(s) - n + 1) : \A k \in 0..(n - 1) : s[j + k] = "\n"}
  IN  IF found = {} THEN 0 ELSE CHOOSE j \in found : \A k \in found : j <= k

\* s.split(sep), sep being n newlines: the pieces between the non-overlapping
\* occurrences of sep found from left to right, from position start on
RECURSIVE SplitFrom(_, _, _)
SplitFrom(s, n, start) ==
  IF NextSep(s, n, start) = 0
    THEN <<SubSeq(s, start, Len(s))>>
    ELSE <<SubSeq(s, start, NextSep(s, n, start) - 1)>>
           \o SplitFrom(s, n, NextSep(s, n, start) + n)

\* s.split('\n\n') for n = 2, s.split('\n') for n = 1
split_newlines(s, n) == SplitFrom(s, n, 1)

\* the positions of s where a token starts
TokenStarts(s) ==
  {i \in 1..Len(s) : ~IsSpace(s[i]) /\ (i = 1 \/ IsSpace(s[i - 1]))}

\* the tokens that start at the positions S of s, in order
TokensAt(s, S) ==
  LET nth(k) == CHOOSE i \in S : Cardinality({j \in S : j < i}) = k - 1
  IN  [k \in 1..Cardinality(S) |-> SubSeq(s, nth(k), SkipToken(s, nth(k)) - 1)]

\* s.split(): the maximal runs of non-whitespace characters, in order
split(s) == CHOOSE tokens \in {TokensAt(s, S) : S \in {TokenStarts(s)}} : TRUE

\* the position where the k-th token from position i on ends (prev if there
\* is none, prev being where the token before i ended)
RECURSIVE TokenEnd(_, _, _, _)
TokenEnd(s, i, k, prev) ==
  LET a == SkipSpaces(s, i)
      b == SkipToken(s, a)
  IN  IF k = 0 \/ a > Len(s) THEN prev ELSE TokenEnd(s, b, k - 1, b - 1)

\* the prefix of s that ends with its k-th token (with its last, if it has fewer)
TokenPrefix(s, k) == SubSeq(s, 1, TokenEnd(s, 1, k, 0))

---------------------------------------------------------------------------
(* Document segmenter: the section lists of __init__ *)

NonEmpty(s) == s # <<>>

\* [s for s in text.split(sep) if s.strip()]: the pieces are kept as they are
unstripped_pieces(text, n) ==
  LET pieces == split_newlines(text, n)
      keep(piece) == strip(piece) # <<>>
  IN  SelectSeq(pieces, keep)

\* [s.strip() for s in text.split(sep) if s.strip()], sep being n newlines
stripped_pieces(text, n) ==
  LET pieces == split_newlines(text, n)
  IN  SelectSeq([i \in 1..Len(pieces) |-> strip(pieces[i])], NonEmpty)

\* cli: split by paragraphs; if that gives no section, split by lines
segment(text) ==
  IF stripped_pieces(text, 2) # <<>>
    THEN stripped_pieces(text, 2)
    ELSE stripped_pieces(text, 1)

\* app: split by paragraphs only
app_segment(text) == stripped_pieces(text, 2)

---------------------------------------------------------------------------
(* Embeddings: unit vectors, so that the cosine similarity of two of them  *)
(* is their dot product                                                    *)

Vectors == {<<1, 0>>, <<0, 1>>}

\* util.cos_sim(a, b) for one pair of vectors
cos_sim(a, b) == a[1] * b[1] + a[2] * b[2]

\* an argmax that returns the last index of a maximal score
argmax_last(scores) ==
  CHOOSE i \in 1..Len(scores) :
    /\ \A j \in 1..Len(scores) : scores[j] <= scores[i]
    /\ \A j \in (i + 1)..Len(scores) : scores[j] < scores[i]

\* similarities.argmax(): the first index of a maximal score
argmax(scores) ==
  CHOOSE i \in 1..Len(scores) :
    /\ \A j \in 1..Len(scores) : scores[j] <= scores[i]
    /\ \A j \in 1..(i - 1) : scores[j] < scores[i]

---------------------------------------------------------------------------
(* Inputs *)

\* two paragraphs: the first, of 8 characters, is below the context threshold,
\* the second is long enough to be a context
DocShort ==
  <<"H","i"," ","t","h","e","r","e","\n","\n","R","e","f","u","n","d","s"," ","w","i","t",
    "h","i","n"," ","3","0"," ","d","a","y","s",".">>

\* one section of LongLen characters, longer than a snippet: words of 19
\* letters, so that a blank stands where each variant cuts its snippet
DocLong == [i \in 1..LongLen |-> IF i % 20 = 0 THEN " " ELSE "a"]

\* sample queries
QueryReset ==
  <<"R","e","s","e","t"," ","p","a","s","s","w","o","r","d","?">>

QueryRefund ==
  <<"R","e","f","u","n","d"," ","p","o","l","i","c","y","?">>

QueryMoon ==
  <<"F","l","y"," ","t","o"," ","m","o","o","n","?">>

\* characters of the documents of the segmentation specification
SegAlphabet == {"a", " ", "\n"}

\* every document of at most MaxDocLen characters over SegAlphabet
BoundedDocs == UNION {[1..k -> SegAlphabet] : k \in 0..MaxDocLen}

\* the documents of the refinement-loop specification
DocPool == {DocShort, <<>>, DocLong}

sample_queries == <<QueryReset, QueryRefund, QueryMoon>>

\* the batches of 1..MaxBatch queries: the first queries of sample_queries
Batches == {SubSeq(sample_queries, 1, n) : n \in 1..MaxBatch}

Formats == {"txt", "pdf", "docx"}

NoCall == [query |-> <<>>, round |-> 0, retrieval |-> "none", context |-> <<>>,
           extraction |-> "none", result |-> <<>>, raised |-> FALSE]

---------------------------------------------------------------------------
(* Initial states: the agent is about to be constructed on a document *)

InitWith(docs) ==
  /\ variant \in {"cli", "app"}
  /\ document_text \in docs
  /\ sections = <<>>
  /\ section_embeddings = <<>>
  /\ embedder = <<>>
  /\ pc = "new"
  /\ error = ""
  /\ queries = <<>>
  /\ qIndex = 0
  /\ query = <<>>
  /\ max_iterations = 0
  /\ iteration = 0
  /\ response = <<>>
  /\ feedback = "none"
  /\ outcome = "NONE"
  /\ responses = <<>>
  /\ feedbacks = <<>>
  /\ call = NoCall
  /\ lastAdjusted = <<>>
  /\ nClassify = 0
  /\ nRetrieve = 0
  /\ nExtract = 0
  /\ selected = <<>>
  /\ nNotHelpful = 0

Init == InitWith(DocPool)

\* the documents whose sections are shorter than a snippet
InitShort == InitWith(DocPool \ {DocLong})

InitSeg == InitWith(BoundedDocs)

---------------------------------------------------------------------------
(* __init__ *)

\* load_document: only .txt and .pdf are read, anything else raises ValueError
load_document_ok(fmt) == fmt \in {"txt", "pdf"}

\* an encode that returns no vector for the last section
encode_sections_drops_last(secs) == [1..(Len(secs) - 1) -> Vectors]

\* self.embedder.encode(self.sections): one vector per section, any vectors
encode_sections(secs) == [1..Len(secs) -> Vectors]

\* SupportBotAgent(document_path), format being the extension of document_path.
\* encodeFails: embedder.encode raises with
\* convert_to_tensor=True; retryFails: it raises again without (cli only).
Construct ==
  /\ pc = "new"
  /\ \E format \in Formats, encodeFails \in BOOLEAN, retryFails \in BOOLEAN :
       LET secs == IF variant = "cli" THEN segment(document_text)
                                      ELSE app_segment(document_text)
           escapes == IF variant = "cli" THEN encodeFails /\ retryFails
                                         ELSE encodeFails
       IN  IF ~load_document_ok(format)
             THEN /\ pc' = "error"
                  /\ error' = "ValueError"
                  /\ UNCHANGED <<sections, section_embeddings>>
             ELSE IF escapes
               THEN /\ pc' = "error"
                    /\ error' = "EncodeError"
                    /\ sections' = secs
                    /\ UNCHANGED section_embeddings
               ELSE /\ pc' = "ready"
                    /\ error' = ""
                    /\ sections' = secs
                    /\ section_embeddings' \in encode_sections(secs)
  /\ UNCHANGED <<variant, document_text, embedder>>
  /\ UNCHANGED <<queries, qIndex, query, max_iterations, iteration, response, feedback,
                 outcome, responses, feedbacks, call, lastAdjusted,
                 nClassify, nRetrieve, nExtract, selected, nNotHelpful>>

---------------------------------------------------------------------------
(* Retrieval, answering, feedback, adjustment *)

\* The vectors embedder.encode may return for a text: the one it returned
\* before, if any (the model is deterministic), else any vector.  The queries
\* of a batch differ, so the vectors of an earlier query are not kept.
encode(text) == IF text \in DOMAIN embedder THEN {embedder[text]} ELSE Vectors

\* What the similarity capability may do for a text: raise (in
\* embedder.encode or util.cos_sim), or return the text's embedding
similarity_outcomes(text) ==
  {[fails |-> TRUE, vec |-> <<0, 0>>]} \cup {[fails |-> FALSE, vec |-> v] : v \in encode(text)}

\* What the question-answering model may do: raise, or return an answer of
\* 0..MaxAnswerTokens tokens
qa_outcomes ==
  {[fails |-> TRUE, tokens |-> 0]} \cup {[fails |-> FALSE, tokens |-> k] : k \in 0..MaxAnswerTokens}

\* the model is not called
qa_not_called == {[fails |-> FALSE, tokens |-> 0]}

\* find_relevant_section(query), sim being what the similarity capability
\* does for the query.  argmax of no score raises.
find_relevant_section(sim) ==
  IF sim.fails \/ sections = <<>>
    THEN [ok |-> FALSE, idx |-> 0, section |-> <<>>]
    ELSE LET similarities == [i \in 1..Len(sections) |->
                                cos_sim(sim.vec, section_embeddings[i])]
             best_idx == argmax(similarities)
         IN  [ok |-> TRUE, idx |-> best_idx, section |-> sections[best_idx]]

\* self.qa_model(question, context)['answer']: an answer drawn from the
\* context, here its prefix of k tokens
qa_model(context, k) == TokenPrefix(context, k)

\* answer_query without the try around find_relevant_section
answer_query_uncaught_retrieval(q, rnd, sim, qa) ==
  LET found == find_relevant_section(sim)
      context == found.section
      base == [query |-> q, round |-> rnd, retrieval |-> "ok", context |-> context,
               extraction |-> "skipped", result |-> <<>>, raised |-> FALSE]
  IN  IF ~found.ok
        THEN [base EXCEPT !.retrieval = "failed", !.raised = TRUE]
        ELSE IF context = <<>> \/ Len(strip(context)) < MinContextLen
          THEN [base EXCEPT !.result = NoInfoMsg]
          ELSE IF qa.fails
            THEN [base EXCEPT !.extraction = "failed", !.result = QAErrorMsg]
            ELSE [base EXCEPT !.extraction = "ok", !.result = qa_model(context, qa.tokens)]

\* cli answer_query(q) in loop round rnd, qa being what self.qa_model does if called
answer_query(q, rnd, sim, qa) ==
  LET found == find_relevant_section(sim)
      context == found.section
      base == [query |-> q, round |-> rnd, retrieval |-> "ok", context |-> context,
               extraction |-> "skipped", result |-> <<>>, raised |-> FALSE]
  IN  IF ~found.ok
        THEN [base EXCEPT !.retrieval = "failed", !.result = NoInfoMsg]
        ELSE IF context = <<>> \/ Len(strip(context)) < MinContextLen
          THEN [base EXCEPT !.result = NoInfoMsg]
          ELSE IF qa.fails
            THEN [base EXCEPT !.extraction = "failed", !.result = QAErrorMsg]
            ELSE [base EXCEPT !.extraction = "ok", !.result = qa_model(context, qa.tokens)]

\* app answer_query(q): nothing is caught
app_answer_query(q, rnd, sim, qa) ==
  LET found == find_relevant_section(sim)
      context == found.section
      base == [query |-> q, round |-> rnd, retrieval |-> "ok", context |-> context,
               extraction |-> "skipped", result |-> <<>>, raised |-> FALSE]
  IN  IF ~found.ok
        THEN [base EXCEPT !.retrieval = "failed", !.raised = TRUE]
        ELSE IF strip(context) = <<>>
          THEN [base EXCEPT !.result = AppNoInfoMsg]
          ELSE IF qa.fails
            THEN [base EXCEPT !.extraction = "failed", !.raised = TRUE]
            ELSE [base EXCEPT !.extraction = "ok", !.result = qa_model(context, qa.tokens)]

\* get_feedback with the token threshold off by one
get_feedback_off_by_one(resp) ==
  IF resp = <<>> \/ Len(split(resp)) < MinTokens - 1
    THEN {"too vague"}
    ELSE {"not helpful", "too vague", "good"}

\* cli get_feedback(response): the labels it may return
get_feedback(resp) ==
  IF resp = <<>> \/ Len(split(resp)) < MinTokens
    THEN {"too vague"}
    ELSE {"not helpful", "too vague", "good"}

\* app get_feedback(response)
app_get_feedback(resp) ==
  IF Len(split(resp)) < MinTokens
    THEN {"too vague"}
    ELSE {"not helpful", "too vague", "good"}

\* the query adjust_response derives on 'not helpful'
follow_up_query(q) == q \o FollowUpSuffix
app_follow_up_query(q) == q \o AppFollowUpSuffix

\* the text adjust_response passes to the embedder for the label fb
AdjustKey(q, fb) ==
  IF fb = "too vague" THEN q
  ELSE IF variant = "cli" THEN follow_up_query(q) ELSE app_follow_up_query(q)

\* adjust_response that answers again on 'not helpful' but returns the old response
adjust_response_keeps_old(q, resp, fb, rnd, sim, qa) ==
  IF fb = "too vague"
    THEN LET found == find_relevant_section(sim)
             snippet == strip(Slice(found.section, SnippetLen))
         IN  [result |-> resp \o AdditionalContext \o snippet \o Ellipsis,
              raised |-> ~found.ok, answered |-> FALSE, call |-> NoCall]
    ELSE IF fb = "not helpful"
      THEN LET c == answer_query(follow_up_query(q), rnd, sim, qa)
           IN  [result |-> resp, raised |-> c.raised, answered |-> TRUE, call |-> c]
      ELSE [result |-> resp, raised |-> FALSE, answered |-> FALSE, call |-> NoCall]

\* adjust_response that also answers the query again on 'too vague'
adjust_response_answers_again(q, resp, fb, rnd, sim, qa) ==
  IF fb = "too vague"
    THEN LET c == answer_query(q, rnd, sim, qa)
             snippet == strip(Slice(c.context, SnippetLen))
         IN  [result |-> resp \o AdditionalContext \o snippet \o Ellipsis,
              raised |-> c.retrieval = "failed", answered |-> TRUE, call |-> c]
    ELSE IF fb = "not helpful"
      THEN LET c == answer_query(follow_up_query(q), rnd, sim, qa)
           IN  [result |-> c.result, raised |-> c.raised, answered |-> TRUE, call |-> c]
      ELSE [result |-> resp, raised |-> FALSE, answered |-> FALSE, call |-> NoCall]

\* adjust_response that appends only the ellipsis on 'too vague'
adjust_response_without_context(q, resp, fb, rnd, sim, qa) ==
  IF fb = "too vague"
    THEN LET found == find_relevant_section(sim)
         IN  [result |-> resp \o Ellipsis,
              raised |-> ~found.ok, answered |-> FALSE, call |-> NoCall]
    ELSE IF fb = "not helpful"
      THEN LET c == answer_query(follow_up_query(q), rnd, sim, qa)
           IN  [result |-> c.result, raised |-> c.raised, answered |-> TRUE, call |-> c]
      ELSE [result |-> resp, raised |-> FALSE, answered |-> FALSE, call |-> NoCall]

\* adjust_response that appends the whole section on 'too vague'
adjust_response_whole_section(q, resp, fb, rnd, sim, qa) ==
  IF fb = "too vague"
    THEN LET found == find_relevant_section(sim)
             snippet == strip(found.section)
         IN  [result |-> resp \o AdditionalContext \o snippet \o Ellipsis,
              raised |-> ~found.ok, answered |-> FALSE, call |-> NoCall]
    ELSE IF fb = "not helpful"
      THEN LET c == answer_query(follow_up_query(q), rnd, sim, qa)
           IN  [result |-> c.result, raised |-> c.raised, answered |-> TRUE, call |-> c]
      ELSE [result |-> resp, raised |-> FALSE, answered |-> FALSE, call |-> NoCall]

\* adjust_response that derives the follow-up query from the query of the
\* previous follow-up, if there was one
adjust_response_accumulates(q, resp, fb, rnd, sim, qa) ==
  IF fb = "too vague"
    THEN LET found == find_relevant_section(sim)
             snippet == strip(Slice(found.section, SnippetLen))
         IN  [result |-> resp \o AdditionalContext \o snippet \o Ellipsis,
              raised |-> ~found.ok, answered |-> FALSE, call |-> NoCall]
    ELSE IF fb = "not helpful"
      THEN LET previous == IF call.round > 0 THEN call.query ELSE q
               c == answer_query(follow_up_query(previous), rnd, sim, qa)
           IN  [result |-> c.result, raised |-> c.raised, answered |-> TRUE, call |-> c]
      ELSE [result |-> resp, raised |-> FALSE, answered |-> FALSE, call |-> NoCall]

\* cli adjust_response(q, resp, fb) in loop round rnd: the returned text,
\* whether an exception escaped, and the answer_query call made, if any
adjust_response(q, resp, fb, rnd, sim, qa) ==
  IF fb = "too vague"
    THEN LET found == find_relevant_section(sim)
             snippet == strip(Slice(found.section, SnippetLen))
         IN  [result |-> resp \o AdditionalContext \o snippet \o Ellipsis,
              raised |-> ~found.ok, answered |-> FALSE, call |-> NoCall]
    ELSE IF fb = "not helpful"
      THEN LET c == answer_query(follow_up_query(q), rnd, sim, qa)
           IN  [result |-> c.result, raised |-> c.raised, answered |-> TRUE, call |-> c]
      ELSE [result |-> resp, raised |-> FALSE, answered |-> FALSE, call |-> NoCall]

\* app adjust_response(q, resp, fb)
app_adjust_response(q, resp, fb, rnd, sim, qa) ==
  IF fb = "too vague"
    THEN LET found == find_relevant_section(sim)
         IN  [result |-> resp \o AppMoreInfo \o Slice(found.section, AppSnippetLen)
                              \o AppEllipsis,
              raised |-> ~found.ok, answered |-> FALSE, call |-> NoCall]
    ELSE IF fb = "not helpful"
      THEN LET c == app_answer_query(app_follow_up_query(q), rnd, sim, qa)
           IN  [result |-> c.result, raised |-> c.raised, answered |-> TRUE, call |-> c]
      ELSE [result |-> resp, raised |-> FALSE, answered |-> FALSE, call |-> NoCall]

---------------------------------------------------------------------------
(* run *)

\* range(max_iterations + 1)
loop_continues_one_more(it, m) == it <= m

\* for iteration in range(max_iterations): is there a pass number it?
loop_continues(it, m) == it < m

\* the loop without its break
never_breaks(fb) == FALSE

\* if feedback == 'good': ... break
breaks_on(fb) == fb = "good"

\* run that does not record the final response
Trace_without_final(list, stage, text) ==
  IF variant = "app" /\ stage # "Final"
    THEN Append(list, [stage |-> stage, text |-> text]) ELSE list

\* responses.append(f"<stage> Response: {text}") of the app's run; the cli
\* prints the line and keeps no list
Trace(list, stage, text) ==
  IF variant = "app" THEN Append(list, [stage |-> stage, text |-> text]) ELSE list

\* the exception that escapes when the call c raised
RaisedBy(c) == IF c.retrieval = "failed" THEN "RetrievalError" ELSE "ExtractionError"

\* bot.run(queries, max_iterations) is called; the app runs one query with
\* its fixed two iterations
RunStart ==
  /\ pc = "ready"
  /\ \E batch \in Batches,
        m \in (IF variant = "app" THEN {AppIterations} ELSE 0..MaxIterations) :
       /\ variant = "app" => Len(batch) = 1
       /\ queries' = batch
       /\ max_iterations' = m
  /\ pc' = "next_query"
  /\ UNCHANGED <<variant, document_text, sections, section_embeddings, embedder, error,
                 qIndex, query, iteration, response, feedback, outcome, responses,
                 feedbacks, call, lastAdjusted, nClassify, nRetrieve, nExtract,
                 selected, nNotHelpful>>

\* a run whose pass counter is not started anew for the next query
NextQuery_keeps_counter ==
  /\ pc = "next_query"
  /\ queries # <<>>
  /\ LET q == Head(queries) IN
     \E sim \in similarity_outcomes(q) :
     \E qa \in (IF sim.fails THEN qa_not_called ELSE qa_outcomes) :
     \E c \in {IF variant = "cli" THEN answer_query(q, 0, sim, qa)
                                    ELSE app_answer_query(q, 0, sim, qa)} :
     \E found \in {find_relevant_section(sim)} :
           /\ query' = q
           /\ selected' = IF found.ok THEN (q :> found.idx) ELSE <<>>
           /\ nNotHelpful' = 0
           /\ queries' = Tail(queries)
           /\ qIndex' = qIndex + 1
           /\ embedder' = IF sim.fails THEN <<>> ELSE (q :> sim.vec)
           /\ call' = c
           /\ iteration' = iteration
           /\ feedback' = "none"
           /\ feedbacks' = <<>>
           /\ lastAdjusted' = <<>>
           /\ nClassify' = 0
           /\ nRetrieve' = 1
           /\ nExtract' = IF c.extraction \in {"ok", "failed"} THEN 1 ELSE 0
           /\ IF c.raised
                THEN /\ pc' = "error"
                     /\ error' = RaisedBy(c)
                     /\ outcome' = "INITIAL"
                     /\ response' = <<>>
                     /\ responses' = <<>>
                ELSE /\ error' = ""
                     /\ response' = c.result
                     /\ responses' = Trace(<<>>, "Initial", c.result)
                     /\ IF loop_continues(iteration, max_iterations)
                          THEN pc' = "classify" /\ outcome' = "ITERATING"
                          ELSE pc' = "next_query" /\ outcome' = "EXHAUSTED"
  /\ UNCHANGED <<variant, document_text, sections, section_embeddings, max_iterations>>

\* for query in queries: response = self.answer_query(query); print(Initial)
NextQuery ==
  /\ pc = "next_query"
  /\ queries # <<>>
  /\ LET q == Head(queries) IN
     \E sim \in similarity_outcomes(q) :
     \E qa \in (IF sim.fails THEN qa_not_called ELSE qa_outcomes) :
     \E c \in {IF variant = "cli" THEN answer_query(q, 0, sim, qa)
                                    ELSE app_answer_query(q, 0, sim, qa)} :
     \E found \in {find_relevant_section(sim)} :
           /\ query' = q
           /\ selected' = IF found.ok THEN (q :> found.idx) ELSE <<>>
           /\ nNotHelpful' = 0
           /\ queries' = Tail(queries)
           /\ qIndex' = qIndex + 1
           /\ embedder' = IF sim.fails THEN <<>> ELSE (q :> sim.vec)
           /\ call' = c
           /\ iteration' = 0
           /\ feedback' = "none"
           /\ feedbacks' = <<>>
           /\ lastAdjusted' = <<>>
           /\ nClassify' = 0
           /\ nRetrieve' = 1
           /\ nExtract' = IF c.extraction \in {"ok", "failed"} THEN 1 ELSE 0
           /\ IF c.raised
                THEN /\ pc' = "error"
                     /\ error' = RaisedBy(c)
                     /\ outcome' = "INITIAL"
                     /\ response' = <<>>
                     /\ responses' = <<>>
                ELSE /\ error' = ""
                     /\ response' = c.result
                     /\ responses' = Trace(<<>>, "Initial", c.result)
                     /\ IF loop_continues(0, max_iterations)
                          THEN pc' = "classify" /\ outcome' = "ITERATING"
                          ELSE pc' = "next_query" /\ outcome' = "EXHAUSTED"
  /\ UNCHANGED <<variant, document_text, sections, section_embeddings, max_iterations>>

\* feedback = self.get_feedback(response); if feedback == 'good': print(Final); break
Classify ==
  /\ pc = "classify"
  /\ \E fb \in (IF variant = "cli" THEN get_feedback(response)
                                   ELSE app_get_feedback(response)) :
       /\ feedback' = fb
       /\ feedbacks' = IF variant = "app" THEN Append(feedbacks, fb) ELSE feedbacks
       /\ nClassify' = nClassify + 1
       /\ nNotHelpful' = IF fb = "not helpful" THEN nNotHelpful + 1 ELSE nNotHelpful
       /\ IF breaks_on(fb)
            THEN /\ responses' = Trace(responses, "Final", response)
                 /\ outcome' = "IMPROVED"
                 /\ pc' = "next_query"
            ELSE /\ pc' = "adjust"
                 /\ UNCHANGED <<responses, outcome>>
  /\ UNCHANGED <<variant, document_text, sections, section_embeddings, embedder, error,
                 queries, qIndex, query, max_iterations, iteration, response, call,
                 lastAdjusted, nRetrieve, nExtract, selected>>

\* response = self.adjust_response(query, response, feedback); print(Updated);
\* then the next pass of the loop, if there is one
Adjust ==
  /\ pc = "adjust"
  /\ LET key == AdjustKey(query, feedback) IN
     \E sim \in similarity_outcomes(key) :
     \E qa \in (IF sim.fails \/ feedback # "not helpful" THEN qa_not_called
                                                          ELSE qa_outcomes) :
     \E a \in {IF variant = "cli"
                  THEN adjust_response(query, response, feedback, iteration + 1, sim, qa)
                  ELSE app_adjust_response(query, response, feedback, iteration + 1,
                                           sim, qa)} :
     \E found \in {find_relevant_section(sim)} :
       LET retrieves == feedback \in {"too vague", "not helpful"}
       IN  /\ selected' = IF retrieves /\ found.ok THEN (key :> found.idx) @@ selected
                                                   ELSE selected
           /\ embedder' = IF retrieves /\ ~sim.fails THEN (key :> sim.vec) @@ embedder
                                                    ELSE embedder
           /\ call' = IF a.answered THEN a.call ELSE call
           /\ nRetrieve' = IF retrieves THEN nRetrieve + 1 ELSE nRetrieve
           /\ nExtract' = IF a.answered /\ a.call.extraction \in {"ok", "failed"}
                            THEN nExtract + 1 ELSE nExtract
           /\ IF a.raised
                THEN /\ pc' = "error"
                     /\ error' = IF a.answered THEN RaisedBy(a.call) ELSE "RetrievalError"
                     /\ UNCHANGED <<response, responses, lastAdjusted, iteration, outcome>>
                ELSE /\ error' = ""
                     /\ response' = a.result
                     /\ lastAdjusted' = a.result
                     /\ responses' = Trace(responses, "Updated", a.result)
                     /\ iteration' = iteration + 1
                     /\ IF loop_continues(iteration + 1, max_iterations)
                          THEN pc' = "classify" /\ UNCHANGED outcome
                          ELSE pc' = "next_query" /\ outcome' = "EXHAUSTED"
  /\ UNCHANGED <<variant, document_text, sections, section_embeddings, queries, qIndex,
                 query, max_iterations, feedback, feedbacks, nClassify, nNotHelpful>>

\* the loop over the queries ends: run returns
RunReturn ==
  /\ pc = "next_query"
  /\ queries = <<>>
  /\ pc' = "done"
  /\ UNCHANGED <<variant, document_text, sections, section_embeddings, embedder, error,
                 queries, qIndex, query, max_iterations, iteration, response, feedback,
                 outcome, responses, feedbacks, call, lastAdjusted,
                 nClassify, nRetrieve, nExtract, selected, nNotHelpful>>

---------------------------------------------------------------------------
(* Specifications *)

Next == Construct \/ RunStart \/ NextQuery \/ Classify \/ Adjust \/ RunReturn

\* the refinement loop on the documents of DocPool
Spec == Init /\ [][Next]_vars

\* single-threaded and synchronous: a started run keeps taking steps; the
\* loop does not look at the length of a section, so the short documents do
FairSpec == InitShort /\ [][Next]_vars /\ WF_vars(Next)

\* segmentation of every document of at most MaxDocLen characters
NextSeg == Construct

SpecSeg == InitSeg /\ [][NextSeg]_vars

---------------------------------------------------------------------------
(* Properties *)

Terminal == {"IMPROVED", "EXHAUSTED"}

\* C1: a run performs at most max_iterations classification rounds for a
\* query, and a query whose loop has started always reaches IMPROVED or
\* EXHAUSTED, unless a capability call does not return normally and its
\* exception leaves run.
C1_BoundedTermination ==
  /\ [](nClassify <= max_iterations)
  /\ (outcome = "ITERATING") ~> (outcome \in Terminal \/ pc = "error")

\* the adversarial sequence: every label is 'too vague', the loop is exhausted
C1_Witness ==
  /\ variant = "app"
  /\ feedbacks = <<"too vague", "too vague">>
  /\ outcome = "EXHAUSTED"
  /\ nClassify = max_iterations

\* C2: no capability failure escapes run: once a query has been started (on
\* an agent that has sections) the program is never stopped by an exception.
C2_NoErrorEscapesRun == (qIndex > 0 /\ sections # <<>>) => pc # "error"

\* C3 as stated: the cli answer_query never raises; a retrieval failure gives
\* a fallback of its own, different from the insufficient-information
\* fallback and from the extraction-error fallback, without calling the
\* question-answering model; an extraction failure gives the extraction-error
\* fallback.
C3_DistinctRetrievalFallback ==
  (variant = "cli" /\ call.retrieval # "none") =>
    /\ ~call.raised
    /\ call.retrieval = "failed" =>
         /\ call.result \notin {NoInfoMsg, QAErrorMsg}
         /\ call.extraction = "skipped"
    /\ call.extraction = "failed" => call.result = QAErrorMsg

\* C3 as amended: the cli answer_query never raises; a retrieval failure
\* gives the same "I don't have enough information" fallback as a short
\* context does, without calling the question-answering model; an extraction
\* failure gives the different "I encountered an error" fallback.
C3_AnswerQueryFallbacks ==
  (variant = "cli" /\ call.retrieval # "none") =>
    /\ ~call.raised
    /\ call.retrieval = "failed" =>
         /\ call.result = NoInfoMsg
         /\ call.extraction = "skipped"
    /\ (call.retrieval = "ok" /\ Len(strip(call.context)) < MinContextLen) =>
         call.result = NoInfoMsg
    /\ call.extraction = "failed" =>
         /\ call.result = QAErrorMsg
         /\ call.result # NoInfoMsg

\* a retrieval failure inside answer_query was turned into the fallback
C3_Witness ==
  /\ variant = "cli"
  /\ call.retrieval = "failed"
  /\ sections # <<>>
  /\ response = NoInfoMsg
  /\ nExtract = 0

\* C4: whenever the selected section is shorter than 10 characters after
\* trimming, answer_query returns the insufficient-information fallback and
\* does not call the question-answering model.
C4_ShortContextSkipsExtraction ==
  (call.retrieval = "ok" /\ Len(strip(call.context)) < MinContextLen) =>
    /\ call.extraction = "skipped"
    /\ ~call.raised => call.result \in {NoInfoMsg, AppNoInfoMsg}

\* C5: a response of fewer than 3 whitespace-separated tokens (the empty one
\* included) is classified 'too vague': after a classification that did not
\* end the loop the label of such a response is 'too vague', and a response
\* classified 'good' has at least 3 tokens.
C5_ShortResponseTooVague ==
  /\ (pc = "adjust" /\ Len(split(response)) < MinTokens) => feedback = "too vague"
  /\ feedback = "good" => Len(split(response)) >= MinTokens

\* the empty response has just been classified
C5_Witness ==
  /\ pc = "adjust"
  /\ response = <<>>
  /\ feedback = "too vague"

\* C6: a 'good' label puts the loop in IMPROVED with the response it was
\* given for, and from then on nothing more is classified, retrieved,
\* extracted or adjusted for that query.
C6_GoodIsFinal ==
  /\ [](feedback = "good" => outcome = "IMPROVED")
  /\ [][(feedback' = "good" /\ feedback # "good") => response' = response]_vars
  /\ [][(feedback = "good" /\ qIndex' = qIndex) =>
          UNCHANGED <<response, responses, feedbacks, iteration,
                      nClassify, nRetrieve, nExtract>>]_vars

\* the run has returned after a query whose second classification was 'good'
C6_Witness ==
  /\ pc = "done"
  /\ outcome = "IMPROVED"
  /\ nClassify = 2
  /\ response = lastAdjusted

\* C7 as stated: the app's list of response records has one entry per
\* classification round: 1 when the first label is 'good', 2 when both
\* labels are 'not helpful'.
C7_TracePerRound ==
  (variant = "app" /\ outcome \in Terminal) => Len(responses) = nClassify

\* C7 as amended: when the app's loop has ended, its list of labels has one
\* entry per classification round and its list of response records one more:
\* 1 label and 2 records when the first label is 'good', 2 labels and 3
\* records when both labels are 'not helpful'.
C7_TraceLengths ==
  variant = "app" =>
    /\ Len(feedbacks) = nClassify
    /\ outcome \in Terminal => Len(responses) = nClassify + 1
    /\ (outcome = "IMPROVED" /\ feedbacks[1] = "good") =>
         Len(feedbacks) = 1 /\ Len(responses) = 2
    /\ (outcome = "EXHAUSTED" /\ \A i \in 1..Len(feedbacks) : feedbacks[i] = "not helpful") =>
         Len(feedbacks) = 2 /\ Len(responses) = 3

\* both labels were 'not helpful' and the app's run has returned
C7_Witness ==
  /\ variant = "app"
  /\ pc = "done"
  /\ outcome = "EXHAUSTED"
  /\ feedbacks = <<"not helpful", "not helpful">>
  /\ Len(responses) = 3

\* C8: when max_iterations passes of the loop complete without 'good' the
\* loop is EXHAUSTED, nothing is classified again, and the response is the
\* one the last adjustment returned; when the last label was 'not helpful'
\* it is the answer found for the derived query in the last round.
C8_ExhaustedKeepsLast ==
  /\ (qIndex > 0 /\ iteration = max_iterations) => outcome = "EXHAUSTED"
  /\ outcome = "EXHAUSTED" =>
       /\ nClassify = max_iterations
       /\ iteration = max_iterations
       /\ feedback # "good"
       /\ max_iterations > 0 => response = lastAdjusted
       /\ feedback = "not helpful" =>
            /\ call.round = max_iterations
            /\ call.query = AdjustKey(query, "not helpful")
            /\ response = call.result

\* both labels were 'not helpful': the response is the second derived answer
C8_Witness ==
  /\ outcome = "EXHAUSTED"
  /\ pc = "done"
  /\ max_iterations = 2
  /\ feedbacks = <<"not helpful", "not helpful">>
  /\ call.round = 2
  /\ call.extraction = "ok"
  /\ response = call.result

\* C9: a document that is empty or whitespace-only is refused when the agent
\* is constructed: construction never succeeds on it.
C9_EmptyDocumentRejected ==
  strip(document_text) = <<>> => pc \in {"new", "error"}

\* no two consecutive newlines in the text
NoParagraphBoundary(text) ==
  \A i \in 1..(Len(text) - 1) : ~(text[i] = "\n" /\ text[i + 1] = "\n")

\* C10: a document with content, with a line break and without a paragraph
\* boundary is split by lines by the cli: one section per non-blank line, at
\* least one section.  (Blank documents are the subject of C9.)
C10_LineFallback ==
  (/\ variant = "cli"
   /\ pc = "ready"
   /\ strip(document_text) # <<>>
   /\ NoParagraphBoundary(document_text)
   /\ \E i \in 1..Len(document_text) : document_text[i] = "\n") =>
    /\ sections = stripped_pieces(document_text, 1)
    /\ Len(sections) >= 1

\* the similarity score of section i for a text the embedder has encoded
Score(text, i) == cos_sim(embedder[text], section_embeddings[i])

\* C11: the index find_relevant_section selects has a maximal similarity
\* score over all sections and is the lowest index with that score; a later
\* call for the same text of the same query selects the same index
C11_SelectsFirstMaximum ==
  /\ [](\A text \in DOMAIN selected :
          /\ text \in DOMAIN embedder
          /\ selected[text] \in 1..Len(sections)
          /\ \A j \in 1..Len(sections) : Score(text, j) <= Score(text, selected[text])
          /\ \A j \in 1..(selected[text] - 1) :
                Score(text, j) < Score(text, selected[text]))
  /\ [][qIndex' = qIndex =>
          \A text \in DOMAIN selected :
            text \in DOMAIN selected' /\ selected'[text] = selected[text]]_vars

\* the query was retrieved for twice, two sections tie on the maximal score
\* and the first of them is selected
C11_Witness ==
  /\ feedback = "too vague"
  /\ iteration > 0
  /\ query \in DOMAIN selected
  /\ selected[query] = 1
  /\ Len(sections) = 2
  /\ Score(query, 2) = Score(query, 1)

\* the constructor has returned an agent
Constructed == pc # "new" /\ ~(pc = "error" /\ qIndex = 0)

\* C12: once the agent is constructed, no operation changes the document, the
\* sections or the section embeddings, and there is one embedding per section
C12_SectionsFixed ==
  /\ [](Constructed => Len(section_embeddings) = Len(sections))
  /\ [][Constructed => UNCHANGED <<document_text, sections, section_embeddings>>]_vars

\* a batch of two queries has run to its end, the second with two adjustments,
\* on a document of two sections
C12_Witness ==
  /\ pc = "done"
  /\ qIndex = 2
  /\ iteration = 2
  /\ nRetrieve = 3
  /\ Len(sections) = 2
  /\ Len(section_embeddings) = 2

\* the clarification suffix of the variant
Suffix == IF variant = "cli" THEN FollowUpSuffix ELSE AppFollowUpSuffix

\* C13: the query of every follow-up answer_query call is the original query
\* of the batch followed by the clarification suffix once, whatever was
\* derived before, and after a 'not helpful' adjustment the response is the
\* result of that call
C13_FollowUpFromOriginal ==
  /\ []((qIndex > 0 /\ call.round > 0) =>
          /\ query = sample_queries[qIndex]
          /\ call.query = sample_queries[qIndex] \o Suffix
          /\ Len(call.query) = Len(query) + Len(Suffix))
  /\ [][(pc = "adjust" /\ feedback = "not helpful" /\ pc' # "error") =>
          /\ call'.query = query \o Suffix
          /\ call'.round = iteration + 1
          /\ query' = query
          /\ response' = call'.result
          /\ lastAdjusted' = call'.result]_vars

\* the second of two 'not helpful' adjustments has answered the follow-up of
\* the original query, and its answer differs from a fallback message
C13_Witness ==
  /\ nNotHelpful = 2
  /\ iteration = 2
  /\ call.round = 2
  /\ call.query = query \o Suffix
  /\ call.extraction = "ok"
  /\ response = call.result

\* the snippet a 'too vague' adjustment takes from a section
Snippet(section) ==
  IF variant = "cli" THEN strip(Slice(section, SnippetLen))
                     ELSE Slice(section, AppSnippetLen)

\* C14: a 'too vague' adjustment keeps the previous response as the prefix of
\* the new one and appends the label, a snippet of at most SnippetLen (app:
\* AppSnippetLen) characters taken from the start of the section retrieved for
\* the original query, and the ellipsis; it makes one retrieval and no call of
\* the question-answering model
C14_TooVagueAppendsSnippet ==
  [][(pc = "adjust" /\ feedback = "too vague" /\ pc' # "error") =>
      /\ query \in DOMAIN selected'
      /\ LET section == sections[selected'[query]]
             limit == IF variant = "cli" THEN SnippetLen ELSE AppSnippetLen
             tail == SubSeq(response', Len(response) + 1, Len(response'))
         IN  /\ SubSeq(response', 1, Len(response)) = response
             /\ tail = (IF variant = "cli" THEN AdditionalContext ELSE AppMoreInfo)
                          \o Snippet(section)
                          \o (IF variant = "cli" THEN Ellipsis ELSE AppEllipsis)
             /\ Len(Snippet(section)) <= limit
             /\ Snippet(section) = SubSeq(section, 1, Len(Snippet(section)))
      /\ nRetrieve' = nRetrieve + 1
      /\ nExtract' = nExtract
      /\ call' = call]_vars

\* a non-empty answer drawn from a section longer than the snippet limit has
\* been extended by a 'too vague' adjustment
C14_Witness ==
  /\ pc # "error"
  /\ feedback = "too vague"
  /\ iteration = 1
  /\ Len(sections) = 1
  /\ Len(sections[1]) > SnippetLen
  /\ call.result # <<>>
  /\ response = lastAdjusted
  /\ Len(response) > Len(call.result) + AppSnippetLen

\* the sections secs[k], secs[k + 1], ... occur in text one after the other,
\* without overlap, from position from on
RECURSIVE OccursInOrder(_, _, _, _)
OccursInOrder(text, secs, k, from) ==
  IF k > Len(secs) THEN TRUE
  ELSE LET at == {p \in from..(Len(text) - Len(secs[k]) + 1) :
                    SubSeq(text, p, p + Len(secs[k]) - 1) = secs[k]}
       IN  /\ at # {}
           /\ OccursInOrder(text, secs, k + 1,
                            (CHOOSE p \in at : \A r \in at : p <= r) + Len(secs[k]))

\* C15: no section is empty or made of whitespace only, every section starts
\* and ends with a non-whitespace character, and the sections occur in the
\* document in the order of the sequence
C15_SectionsTrimmedInOrder ==
  /\ \A i \in 1..Len(sections) :
       /\ sections[i] # <<>>
       /\ \E k \in 1..Len(sections[i]) : ~IsSpace(sections[i][k])
       /\ ~IsSpace(sections[i][1])
       /\ ~IsSpace(sections[i][Len(sections[i])])
  /\ OccursInOrder(document_text, sections, 1, 1)

\* a document that starts with whitespace has been cut into two sections
C15_Witness ==
  /\ pc = "ready"
  /\ Len(sections) = 2
  /\ IsSpace(document_text[1])

\* C16: run takes the queries of the batch in their order; a query is started
\* only when the loop of the one before has ended IMPROVED or EXHAUSTED, and
\* it starts from its own initial answer, pass counter 0 and no feedback
\* label; the loop of a query takes no step once it has ended
C16_OneQueryAtATime ==
  /\ [](qIndex > 0 =>
          /\ query = sample_queries[qIndex]
          /\ queries = SubSeq(sample_queries, qIndex + 1, qIndex + Len(queries)))
  /\ [][qIndex' # qIndex =>
          /\ qIndex' = qIndex + 1
          /\ qIndex > 0 => outcome \in Terminal
          /\ query' = Head(queries)
          /\ queries' = Tail(queries)
          /\ iteration' = 0
          /\ nClassify' = 0
          /\ feedback' = "none"
          /\ feedbacks' = <<>>
          /\ lastAdjusted' = <<>>
          /\ call'.query = query'
          /\ call'.round = 0
          /\ pc' # "error" => response' = call'.result]_vars
  /\ [][(qIndex' = qIndex /\ outcome \in Terminal) =>
          UNCHANGED <<query, response, iteration, feedback, nClassify, outcome>>]_vars

\* the second query of a batch has started from its own initial answer
C16_Witness ==
  /\ qIndex = 2
  /\ query = sample_queries[2]
  /\ pc = "classify"
  /\ iteration = 0
  /\ max_iterations = 2
  /\ response = call.result
  /\ response # <<>>

\* C17: the response a 'too vague' adjustment returns has at least MinTokens
\* whitespace-separated tokens, whatever the response before was; so a
\* response of fewer tokens that is up for classification is the result of
\* an answer_query call: the initial one, or the follow-up of a 'not helpful'
\* adjustment
C17_ExtendedResponseNotShort ==
  /\ [][(pc = "adjust" /\ feedback = "too vague" /\ pc' # "error") =>
          /\ Len(sections) >= 1
          /\ Cardinality(TokenStarts(response')) >= MinTokens
          /\ (IF variant = "cli" THEN get_feedback(response')
                                 ELSE app_get_feedback(response')) # {"too vague"}]_vars
  /\ []((pc = "classify" /\ Len(split(response)) < MinTokens) =>
          /\ response = call.result
          /\ call.round = iteration
          /\ iteration > 0 => feedback = "not helpful")

\* an empty answer of the question-answering model has been extended by a
\* 'too vague' adjustment and is up for classification
C17_Witness ==
  /\ pc = "classify"
  /\ feedback = "too vague"
  /\ iteration = 1
  /\ call.extraction = "ok"
  /\ call.result = <<>>
  /\ response = lastAdjusted
  /\ response[1] = " "
  /\ Len(split(response)) >= MinTokens

\* the classification rounds of this query whose label was not 'good'
NonGoodRounds == nClassify - (IF feedback = "good" THEN 1 ELSE 0)

\* C18: between the rounds of a query and at its end, find_relevant_section
\* has been called once for the initial answer and once per round whose label
\* was not 'good', so at most 1 + max_iterations times; the question-answering
\* model has been called at most once for the initial answer and once per
\* 'not helpful' round
C18_CallCounts ==
  (qIndex > 0 /\ pc \in {"classify", "next_query", "done"}) =>
    /\ nRetrieve = 1 + NonGoodRounds
    /\ nRetrieve = 1 + iteration
    /\ nRetrieve <= 1 + max_iterations
    /\ nNotHelpful <= NonGoodRounds
    /\ nExtract <= 1 + nNotHelpful

\* no capability failed: a query ended after a 'too vague' and a 'not helpful'
\* round with three retrievals and two calls of the question-answering model
C18_Witness ==
  /\ pc = "next_query"
  /\ outcome = "EXHAUSTED"
  /\ error = ""
  /\ nClassify = 2
  /\ nNotHelpful = 1
  /\ nRetrieve = 3
  /\ nExtract = 2
  /\ call.round = 2
  /\ call.extraction = "ok"

=============================================================================
